---- MODULE Spec2Model ----
(***************************************************************************)
(* Content store of the DevFixPro site (src/lib/mdx.ts): the two Markdown  *)
(* collections content/blog and content/guides, the static guide registry  *)
(* (data/all-guides), and the four queries getAllBlogPosts, getBlogPost,   *)
(* getAllGuides and getGuide.                                              *)
(*                                                                         *)
(* A file's text is a sequence of lines; a line is a front-matter          *)
(* delimiter (---), a YAML "key: value" line, a line YAML cannot parse, or *)
(* plain text.  JavaScript values are tagged records, so that the `||`     *)
(* fallbacks and `new Date(x).getTime()` act on the value kinds they act   *)
(* on in the program.                                                      *)
(***************************************************************************)
EXTENDS Integers, Sequences, FiniteSets, TLC

VARIABLES blogDir, guidesDir, call, cache, markdown, lastIndex, toc, scan,
          searchQuery, selectedCategory, filteredErrors

vars ==
  <<blogDir, guidesDir, call, cache, markdown, lastIndex, toc, scan,
    searchQuery, selectedCategory, filteredErrors>>

\* the state of the content store, the state of a run of extractToc, and the
\* state of the problems page
storeVars == <<blogDir, guidesDir, call, cache>>

tocVars == <<markdown, lastIndex, toc, scan>>

pageVars == <<searchQuery, selectedCategory, filteredErrors>>

\* Largest number of entries in a generated collection directory.
MaxFiles == 2

\* Largest number of lines in a generated Markdown body.
MaxLines == 3

-----------------------------------------------------------------------------
(* JavaScript values *)

Undef == [t |-> "undefined", s |-> "", n |-> 0, q |-> <<>>]

\* null (YAML loads a key without a value as null)
JsNull == [t |-> "null", s |-> "", n |-> 0, q |-> <<>>]

Str(x) == [t |-> "string", s |-> x, n |-> 0, q |-> <<>>]

Num(k) == [t |-> "number", s |-> "", n |-> k, q |-> <<>>]

Bool(b) == [t |-> "boolean", s |-> "", n |-> IF b THEN 1 ELSE 0, q |-> <<>>]

Arr(xs) == [t |-> "array", s |-> "", n |-> 0, q |-> xs]

\* a Date object (YAML turns an unquoted date into one); n is its time value
DateObj(k) == [t |-> "date", s |-> "", n |-> k, q |-> <<>>]

\* ToBoolean
Truthy(v) ==
  CASE v.t = "undefined" -> FALSE
    [] v.t = "null" -> FALSE
    [] v.t = "string" -> v.s # ""
    [] v.t = "number" -> v.n # 0
    [] v.t = "boolean" -> v.n # 0
    [] OTHER -> TRUE

\* a || b
Or(a, b) == IF Truthy(a) THEN a ELSE b

-----------------------------------------------------------------------------
(* Strings *)

Char(s, i) == SubSeq(s, i, i)

endsWith(s, suffix) ==
  /\ Len(s) >= Len(suffix)
  /\ SubSeq(s, Len(s) - Len(suffix) + 1, Len(s)) = suffix

\* file.replace(/\.mdx?$/, '')
StripExt(file) ==
  IF endsWith(file, ".mdx") THEN SubSeq(file, 1, Len(file) - 4)
  ELSE IF endsWith(file, ".md") THEN SubSeq(file, 1, Len(file) - 3)
  ELSE file

RECURSIVE SplitFrom(_, _, _)
\* the "/"-separated segments of s from position i on; start is where the
\* current segment began
SplitFrom(s, start, i) ==
  IF i > Len(s) THEN <<SubSeq(s, start, Len(s))>>
  ELSE IF Char(s, i) = "/"
       THEN <<SubSeq(s, start, i - 1)>> \o SplitFrom(s, i + 1, i + 1)
       ELSE SplitFrom(s, start, i + 1)

RECURSIVE Normalize(_, _)
\* path.normalize on segments: "" and "." are dropped, ".." pops
Normalize(done, todo) ==
  IF todo = <<>> THEN done
  ELSE LET h == Head(todo) IN
       IF h = "" \/ h = "." THEN Normalize(done, Tail(todo))
       ELSE IF h = ".."
            THEN Normalize(IF done = <<>> THEN <<>> ELSE SubSeq(done, 1, Len(done) - 1),
                           Tail(todo))
            ELSE Normalize(Append(done, h), Tail(todo))

\* path.join(base, rel), base an absolute path given as its segments
PathJoin(base, rel) == Normalize(base, SplitFrom(rel, 1, 1))

-----------------------------------------------------------------------------
(* Dates: new Date(x).getTime().  Time values are in seconds, not in       *)
(* milliseconds, to stay inside 32-bit integers; the sort     *)
(* comparator uses only the sign of a difference.                          *)

NaN == [nan |-> TRUE, v |-> 0]

Time(k) == [nan |-> FALSE, v |-> k]

Digits == {"0", "1", "2", "3", "4", "5", "6", "7", "8", "9"}

DigitVal(c) ==
  CASE c = "0" -> 0 [] c = "1" -> 1 [] c = "2" -> 2 [] c = "3" -> 3
    [] c = "4" -> 4 [] c = "5" -> 5 [] c = "6" -> 6 [] c = "7" -> 7
    [] c = "8" -> 8 [] c = "9" -> 9

AllDigits(s, i, j) == \A k \in i..j : Char(s, k) \in Digits

RECURSIVE NumAt(_, _, _)
NumAt(s, i, j) ==
  IF j < i THEN 0 ELSE NumAt(s, i, j - 1) * 10 + DigitVal(Char(s, j))

IsLeap(y) == (y % 4 = 0 /\ y % 100 # 0) \/ y % 400 = 0

DaysInMonth(y, m) ==
  IF m = 2 THEN (IF IsLeap(y) THEN 29 ELSE 28)
  ELSE IF m \in {4, 6, 9, 11} THEN 30 ELSE 31

\* days from 1970-01-01 to y-m-d (proleptic Gregorian), y >= 1970
DaysFromCivil(y, m, d) ==
  LET yy == IF m <= 2 THEN y - 1 ELSE y
      era == yy \div 400
      yoe == yy - era * 400
      mp == IF m > 2 THEN m - 3 ELSE m + 9
      doy == (153 * mp + 2) \div 5 + d - 1
      doe == yoe * 365 + yoe \div 4 - yoe \div 100 + doy
  IN era * 146097 + doe - 719468

\* Date.parse on the ECMAScript date-time string format: YYYY-MM-DD (UTC
\* midnight) and YYYY-MM-DDTHH:mm:ssZ; every other string is not a date
DateParse(s) ==
  LET dateOk ==
        /\ Len(s) >= 10
        /\ AllDigits(s, 1, 4) /\ Char(s, 5) = "-"
        /\ AllDigits(s, 6, 7) /\ Char(s, 8) = "-"
        /\ AllDigits(s, 9, 10)
        /\ NumAt(s, 1, 4) \in 1970..2037
        /\ NumAt(s, 6, 7) \in 1..12
        /\ NumAt(s, 9, 10) \in 1..DaysInMonth(NumAt(s, 1, 4), NumAt(s, 6, 7))
      timeOk ==
        /\ Len(s) = 20
        /\ Char(s, 11) = "T" /\ Char(s, 20) = "Z"
        /\ AllDigits(s, 12, 13) /\ Char(s, 14) = ":"
        /\ AllDigits(s, 15, 16) /\ Char(s, 17) = ":"
        /\ AllDigits(s, 18, 19)
        /\ NumAt(s, 12, 13) <= 23 /\ NumAt(s, 15, 16) <= 59
        /\ NumAt(s, 18, 19) <= 59
      days == DaysFromCivil(NumAt(s, 1, 4), NumAt(s, 6, 7), NumAt(s, 9, 10))
  IN IF ~dateOk THEN NaN
     ELSE IF Len(s) = 10 THEN Time(days * 86400)
     ELSE IF timeOk
          THEN Time(days * 86400 + NumAt(s, 12, 13) * 3600
                    + NumAt(s, 15, 16) * 60 + NumAt(s, 18, 19))
          ELSE NaN

\* new Date(v).getTime()
GetTime(v) ==
  CASE v.t = "string" -> DateParse(v.s)
    [] v.t = "date" -> Time(v.n)
    [] v.t = "number" -> Time(v.n)
    [] v.t = "boolean" -> Time(v.n)
    [] v.t = "null" -> Time(0)
    [] OTHER -> NaN

-----------------------------------------------------------------------------
(* File text and gray-matter *)

\* the line "---"
Delim == [kind |-> "delim", s |-> "---", val |-> Undef]

\* a line "key: value" that YAML reads as one mapping entry
KV(k, v) == [kind |-> "kv", s |-> k, val |-> v]

\* a line YAML cannot parse (for example  title: "unterminated )
Bad == [kind |-> "bad", s |-> "title: \"", val |-> Undef]

\* any other line
Text(x) == [kind |-> "text", s |-> x, val |-> Undef]

\* index of the first delimiter line after line 1, or Len + 1 when the block
\* is never closed (the rest of the file is then front matter)
CloseIndex(text) ==
  IF \E i \in 2..Len(text) : text[i].kind = "delim"
  THEN CHOOSE i \in 2..Len(text) :
         /\ text[i].kind = "delim"
         /\ \A j \in 2..(i - 1) : text[j].kind # "delim"
  ELSE Len(text) + 1

\* yaml.load of the lines of a front-matter block: a mapping, or an exception
\* for a line it cannot parse, a duplicated key, or text mixed into a mapping
YamlThrows(yaml) ==
  \/ \E i \in DOMAIN yaml : yaml[i].kind = "bad"
  \/ \E i, j \in DOMAIN yaml :
       i # j /\ yaml[i].kind = "kv" /\ yaml[j].kind = "kv" /\ yaml[i].s = yaml[j].s
  \/ \E i, j \in DOMAIN yaml : yaml[i].kind = "kv" /\ yaml[j].kind = "text"

YamlLoad(yaml) ==
  LET keys == {yaml[i].s : i \in {j \in DOMAIN yaml : yaml[j].kind = "kv"}}
  IN [k \in keys |-> yaml[CHOOSE i \in DOMAIN yaml : yaml[i].kind = "kv" /\ yaml[i].s = k].val]

\* gray-matter's parseMatter(file): { data, content }, or the exception of
\* yaml.load
parseMatter(text) ==
  IF text = <<>> \/ Head(text).kind # "delim"
  THEN [threw |-> FALSE, data |-> <<>>, content |-> text]
  ELSE LET close == CloseIndex(text)
           yaml == SubSeq(text, 2, close - 1)
       IN IF YamlThrows(yaml)
          THEN [threw |-> TRUE, data |-> <<>>, content |-> <<>>]
          ELSE [threw |-> FALSE, data |-> YamlLoad(yaml),
                content |-> SubSeq(text, close + 1, Len(text))]

\* the file object gray-matter makes of a text before it parses it: no data,
\* and the whole text as content
toFile(text) == [threw |-> FALSE, data |-> <<>>, content |-> text]

\* matter(fileContents), called without options.  gray-matter keeps a
\* module-level table matter.cache from text to file object; it enters the
\* file object before parsing it, and parseMatter fills the object in place.
\* When yaml.load throws the entry stays as toFile made it, and every later
\* call with the same text returns that entry.  The entry of a text that
\* parsed is what parsing it gives, so cached holds only the texts whose
\* parse threw.
matter(cached, text) ==
  IF text \in cached THEN toFile(text) ELSE parseMatter(text)

\* matter.cache after matter(text)
CacheAfter(cached, text) ==
  IF text \notin cached /\ parseMatter(text).threw THEN cached \cup {text} ELSE cached

\* data.key
Get(data, key) == IF key \in DOMAIN data THEN data[key] ELSE Undef

-----------------------------------------------------------------------------
(* The file system under process.cwd() *)

\* a directory that does not exist
NoDir == [exists |-> FALSE, entries |-> <<>>]

Dir(entries) == [exists |-> TRUE, entries |-> entries]

\* a regular file
File(name, text) == [name |-> name, kind |-> "file", text |-> text]

\* an entry that readFileSync cannot read (a sub-directory: EISDIR)
SubDir(name) == [name |-> name, kind |-> "dir", text |-> <<>>]

cwd == <<"app">>

contentDirectory == PathJoin(cwd, "content")

\* path.join(contentDirectory, 'blog')
blogDirPath == PathJoin(contentDirectory, "blog")

\* path.join(contentDirectory, 'guides')
guidesDirPath == PathJoin(contentDirectory, "guides")

\* the directory at path p, for the two collection directories
DirAt(p) ==
  IF p = blogDirPath THEN blogDir
  ELSE IF p = guidesDirPath THEN guidesDir
  ELSE NoDir

Parent(p) == SubSeq(p, 1, Len(p) - 1)

HasEntry(d, name) == \E i \in DOMAIN d.entries : d.entries[i].name = name

Entry(d, name) == d.entries[CHOOSE i \in DOMAIN d.entries : d.entries[i].name = name]

\* fs.existsSync(p)
existsSync(p) ==
  \/ DirAt(p).exists
  \/ p # <<>> /\ DirAt(Parent(p)).exists /\ HasEntry(DirAt(Parent(p)), p[Len(p)])
  \/ p = contentDirectory /\ (blogDir.exists \/ guidesDir.exists)
  \/ p = cwd

\* fs.readdirSync(p): the entry names, in the directory's enumeration order,
\* or an exception (ENOENT)
readdirSync(p) ==
  IF DirAt(p).exists
  THEN [threw |-> FALSE,
        files |-> [i \in DOMAIN DirAt(p).entries |-> DirAt(p).entries[i].name]]
  ELSE [threw |-> TRUE, files |-> <<>>]

\* fs.readFileSync(p, 'utf8'): the text, or an exception
readFileSync(p) ==
  IF p # <<>> /\ DirAt(Parent(p)).exists /\ HasEntry(DirAt(Parent(p)), p[Len(p)])
     /\ Entry(DirAt(Parent(p)), p[Len(p)]).kind = "file"
  THEN [threw |-> FALSE, text |-> Entry(DirAt(Parent(p)), p[Len(p)]).text]
  ELSE [threw |-> TRUE, text |-> <<>>]

-----------------------------------------------------------------------------
(* Array.prototype.sort as the runtime (V8) performs it on a short array:  *)
(* the leading run is found and, when strictly descending, reversed; the   *)
(* other elements are placed by binary insertion.  A comparator result of  *)
(* NaN counts as 0.                                                        *)

\* the comparator with its operands exchanged: oldest first
ComparatorAscending(a, b) ==
  LET tb == GetTime(b.date)
      ta == GetTime(a.date)
  IN IF tb.nan \/ ta.nan THEN NaN ELSE Time(ta.v - tb.v)

\* (a, b) => new Date(b.date).getTime() - new Date(a.date).getTime()
Comparator(a, b) ==
  LET tb == GetTime(b.date)
      ta == GetTime(a.date)
  IN IF tb.nan \/ ta.nan THEN NaN ELSE Time(tb.v - ta.v)

SortCompare(a, b) ==
  LET v == Comparator(a, b) IN IF v.nan THEN 0 ELSE v.v

Reverse(xs) == [i \in DOMAIN xs |-> xs[Len(xs) + 1 - i]]

RECURSIVE RunEnd(_, _, _)
\* the last index of the run that starts at 1, examined from idx on
RunEnd(arr, idx, desc) ==
  IF idx > Len(arr) THEN idx - 1
  ELSE IF (desc /\ SortCompare(arr[idx], arr[idx - 1]) >= 0)
          \/ (~desc /\ SortCompare(arr[idx], arr[idx - 1]) < 0)
       THEN idx - 1
       ELSE RunEnd(arr, idx + 1, desc)

\* the array with its leading run arr[1..len] made ascending
MakeRun(arr, desc, len) ==
  [arr |-> IF desc
           THEN Reverse(SubSeq(arr, 1, len)) \o SubSeq(arr, len + 1, Len(arr))
           ELSE arr,
   runLength |-> len]

RunFrom(arr, desc) == MakeRun(arr, desc, RunEnd(arr, 3, desc))

CountAndMakeRun(arr) == RunFrom(arr, SortCompare(arr[2], arr[1]) < 0)

RECURSIVE BinarySearch(_, _, _, _)
RECURSIVE Probe(_, _, _, _, _)
\* where pivot goes among arr[1..right]: after every element it is not
\* smaller than
BinarySearch(arr, pivot, left, right) ==
  IF left < right
  THEN Probe(arr, pivot, left, right, left + ((right - left) \div 2))
  ELSE left

Probe(arr, pivot, left, right, mid) ==
  IF SortCompare(pivot, arr[mid + 1]) < 0
  THEN BinarySearch(arr, pivot, left, mid)
  ELSE BinarySearch(arr, pivot, mid + 1, right)

\* arr with arr[start + 1] moved to position left + 1
InsertAt(arr, start, left) ==
  SubSeq(arr, 1, left) \o <<arr[start + 1]>> \o SubSeq(arr, left + 1, start)
    \o SubSeq(arr, start + 2, Len(arr))

RECURSIVE BinaryInsertionSort(_, _)
\* arr[1..start] is sorted; insert the others one by one
BinaryInsertionSort(arr, start) ==
  IF start >= Len(arr) THEN arr
  ELSE BinaryInsertionSort(
         InsertAt(arr, start, BinarySearch(arr, arr[start + 1], 0, start)),
         start + 1)

SortRun(r) == BinaryInsertionSort(r.arr, r.runLength)

\* arr.sort(comparator)
ArraySort(arr) == IF Len(arr) < 2 THEN arr ELSE SortRun(CountAndMakeRun(arr))

-----------------------------------------------------------------------------
(* The static guide registry (data/all-guides) *)

guides ==
  << [slug |-> "nestjs-mongodb-setup",
      title |-> "How to Setup NestJS with MongoDB (Best Practices)",
      description |-> "Step-by-step guide to connecting NestJS with MongoDB using Mongoose."],
     [slug |-> "jwt-authentication-nestjs",
      title |-> "JWT Authentication in NestJS (Access & Refresh Tokens)",
      description |-> "Full guide to implementing JWT auth in NestJS with MongoDB."],
     [slug |-> "deploy-nestjs-to-vps",
      title |-> "Deploy NestJS to VPS (Step-by-Step Guide)",
      description |-> "Learn how to deploy a NestJS app to a Virtual Private Servever (VPS)."],
     [slug |-> "mern-stack-folder-structure",
      title |-> "MERN Stack: Best Folder Structure for Production Apps",
      description |-> "Setup guide for scalable, production-ready MERN stack applications."],
     [slug |-> "mongodb-atlas-nestjs",
      title |-> "Connect MongoDB Atlas with NestJS (Common Errors & Fixes)",
      description |-> "How to securely connect NestJS to MongoDB Atlas with error handling."],
     [slug |-> "session-auth-redis-nestjs",
      title |-> "Session Authentication with Redis in NestJS",
      description |-> "Implement session-based auth using Redis in NestJS (scalable solution)."],
     [slug |-> "nextjs-14-app-router-setup",
      title |-> "Next.js 14 App Router: Complete Setup Guide",
      description |-> "Modern Next.js setup with TypeScript, Tailwind, and best practices."],
     [slug |-> "docker-nodejs-mongodb",
      title |-> "Docker Setup for Node.js & MongoDB Applications",
      description |-> "Containerize your Node.js and MongoDB apps with Docker and Docker Compose."],
     [slug |-> "restful-api-best-practices",
      title |-> "RESTful API Design Best Practices",
      description |-> "Complete guide to designing scalable and maintainable REST APIs."] >>

\* guides.find((g) => g.slug === slug) !== undefined
InRegistry(slug) == \E i \in DOMAIN guides : guides[i].slug = slug

\* guides.find((g) => g.slug === slug), for a slug of the registry
GuideMeta(slug) ==
  guides[CHOOSE i \in DOMAIN guides :
           /\ guides[i].slug = slug
           /\ \A j \in 1..(i - 1) : guides[j].slug # slug]

-----------------------------------------------------------------------------
(* The queries of src/lib/mdx.ts.  A query yields what the call returns,   *)
(* or the fact that an exception left it.                                  *)

\* the not-found value
Null == [null |-> TRUE]

Returned(v) == [threw |-> FALSE, value |-> v]

Threw == [threw |-> TRUE, value |-> Null]

\* try { ... } catch (error) { return null }
CatchNull(r) == IF r.threw THEN Returned(Null) ELSE r

\* file.endsWith('.md') || file.endsWith('.mdx')
IsMarkdown(file) == endsWith(file, ".md") \/ endsWith(file, ".mdx")

\* a || b with ?? in its place: only an absent key gets the default
Nullish(a, b) == IF a.t = "undefined" THEN b ELSE a

\* the post record built with ?? fallbacks
BlogPostNullish(slug, m) ==
  [slug |-> slug,
   title |-> Nullish(Get(m.data, "title"), Str("")),
   description |-> Nullish(Get(m.data, "description"), Str("")),
   date |-> Nullish(Get(m.data, "date"), Str("")),
   author |-> Nullish(Get(m.data, "author"), Str("DevFixPro")),
   category |-> Nullish(Get(m.data, "category"), Str("General")),
   tags |-> Nullish(Get(m.data, "tags"), Arr(<<>>)),
   content |-> m.content]

\* the record a post file gives (the object literal of getAllBlogPosts and
\* of getBlogPost)
BlogPost(slug, m) ==
  [slug |-> slug,
   title |-> Or(Get(m.data, "title"), Str("")),
   description |-> Or(Get(m.data, "description"), Str("")),
   date |-> Or(Get(m.data, "date"), Str("")),
   author |-> Or(Get(m.data, "author"), Str("DevFixPro")),
   category |-> Or(Get(m.data, "category"), Str("General")),
   tags |-> Or(Get(m.data, "tags"), Arr(<<>>)),
   content |-> m.content]

\* the record a guide file gives in getAllGuides
GuideListed(slug, m) ==
  [slug |-> slug,
   title |-> Or(Get(m.data, "title"), Str("")),
   description |-> Or(Get(m.data, "description"), Str("")),
   date |-> Or(Get(m.data, "date"), Str("")),
   category |-> Or(Get(m.data, "category"), Str("Setup")),
   content |-> m.content]

\* the record getGuide returns: display data from the registry entry
GuideJoined(slug, guideMeta, m) ==
  [slug |-> slug,
   title |-> Or(Str(guideMeta.title), Str("")),
   description |-> Or(Str(guideMeta.description), Str("")),
   content |-> m.content]

\* a slug that front matter may override
SlugFromFrontMatter(file, data) ==
  IF Truthy(Get(data, "slug")) /\ Get(data, "slug").t = "string"
  THEN Get(data, "slug").s
  ELSE StripExt(file)

\* const slug = file.replace(/\.mdx?$/, ''): the slug a listing gives the
\* record of a directory entry, whatever its front matter
SlugOf(file, data) == StripExt(file)

\* one step of the .map callback of getAllBlogPosts
MapPost(cached, dir, file) ==
  LET r == readFileSync(PathJoin(dir, file))
      m == matter(cached, r.text)
  IN IF r.threw \/ m.threw THEN Threw
     ELSE Returned(BlogPost(SlugOf(file, m.data), m))

\* one step of the .map callback of getAllGuides
MapGuide(cached, dir, file) ==
  LET r == readFileSync(PathJoin(dir, file))
      m == matter(cached, r.text)
  IN IF r.threw \/ m.threw THEN Threw
     ELSE Returned(GuideListed(SlugOf(file, m.data), m))

\* .sort(...) of the .map results, which an exception in the callback never
\* reaches
MapSort(mapped) ==
  IF \E i \in DOMAIN mapped : mapped[i].threw THEN Threw
  ELSE Returned(ArraySort([i \in DOMAIN mapped |-> mapped[i].value]))

\* fs.readdirSync(blogDir) and the .filter, .map and .sort on it
ListBlogPosts(cached) ==
  LET rd == readdirSync(blogDirPath)
      files == SelectSeq(rd.files, IsMarkdown)
  IN IF rd.threw THEN Threw
     ELSE MapSort([i \in DOMAIN files |-> MapPost(cached, blogDirPath, files[i])])

\* the listing without its existsSync guard
getAllBlogPostsUnguarded(cached) == ListBlogPosts(cached)

getAllBlogPosts(cached) ==
  IF ~existsSync(blogDirPath) THEN Returned(<<>>) ELSE ListBlogPosts(cached)

\* path.join(blogDir, `${slug}.md`)
BlogPath(slug) == PathJoin(blogDirPath, slug \o ".md")

\* path.join(guidesDir, `${slug}.md`)
GuidePath(slug) == PathJoin(guidesDirPath, slug \o ".md")

\* the lookup with the .mdx extension in its path
TryGetBlogPostMdx(cached, slug) ==
  LET fullPath == PathJoin(blogDirPath, slug \o ".mdx")
      r == readFileSync(fullPath)
      m == matter(cached, r.text)
  IN IF ~existsSync(fullPath) THEN Returned(Null)
     ELSE IF r.threw \/ m.threw THEN Threw
     ELSE Returned(BlogPost(slug, m))

\* the body of the try block of getBlogPost
TryGetBlogPost(cached, slug) ==
  LET fullPath == BlogPath(slug)
      r == readFileSync(fullPath)
      m == matter(cached, r.text)
  IN IF ~existsSync(fullPath) THEN Returned(Null)
     ELSE IF r.threw \/ m.threw THEN Threw
     ELSE Returned(BlogPost(slug, m))

getBlogPost(cached, slug) == CatchNull(TryGetBlogPost(cached, slug))

\* fs.readdirSync(guidesDir) and the .filter, .map and .sort on it
ListGuides(cached) ==
  LET rd == readdirSync(guidesDirPath)
      files == SelectSeq(rd.files, IsMarkdown)
  IN IF rd.threw THEN Threw
     ELSE MapSort([i \in DOMAIN files |-> MapGuide(cached, guidesDirPath, files[i])])

getAllGuides(cached) ==
  IF ~existsSync(guidesDirPath) THEN Returned(<<>>) ELSE ListGuides(cached)

\* the lookup falling back to the file's own front matter when the registry
\* has no entry
TryGetGuideFileOnly(cached, slug) ==
  LET fullPath == GuidePath(slug)
      r == readFileSync(fullPath)
      m == matter(cached, r.text)
  IN IF ~existsSync(fullPath) THEN Returned(Null)
     ELSE IF r.threw \/ m.threw THEN Threw
     ELSE IF ~InRegistry(slug)
          THEN Returned([slug |-> slug,
                         title |-> Or(Get(m.data, "title"), Str("")),
                         description |-> Or(Get(m.data, "description"), Str("")),
                         content |-> m.content])
          ELSE Returned(GuideJoined(slug, GuideMeta(slug), m))

\* the body of the try block of getGuide
TryGetGuide(cached, slug) ==
  LET fullPath == GuidePath(slug)
      r == readFileSync(fullPath)
      m == matter(cached, r.text)
  IN IF ~InRegistry(slug) THEN Returned(Null)
     ELSE IF ~existsSync(fullPath) THEN Returned(Null)
     ELSE IF r.threw \/ m.threw THEN Threw
     ELSE Returned(GuideJoined(slug, GuideMeta(slug), m))

getGuide(cached, slug) == CatchNull(TryGetGuide(cached, slug))

-----------------------------------------------------------------------------
\* matter.cache after the .map callback of a listing has run on files[i],
\* files[i + 1], ...: the callback stops at the first exception, and
\* matter.cache changes only when that exception is yaml.load's
RECURSIVE MapCache(_, _, _, _)
MapCache(cached, dir, files, i) ==
  IF i > Len(files) THEN cached
  ELSE IF readFileSync(PathJoin(dir, files[i])).threw THEN cached
  ELSE IF matter(cached, readFileSync(PathJoin(dir, files[i])).text).threw
       THEN CacheAfter(cached, readFileSync(PathJoin(dir, files[i])).text)
       ELSE MapCache(cached, dir, files, i + 1)

\* matter.cache after getAllBlogPosts or getAllGuides on the directory
ListCache(cached, dir) ==
  IF ~existsSync(dir) \/ readdirSync(dir).threw THEN cached
  ELSE MapCache(cached, dir, SelectSeq(readdirSync(dir).files, IsMarkdown), 1)

\* matter.cache after the try block of a lookup that got as far as fullPath
LookupCache(cached, fullPath) ==
  IF ~existsSync(fullPath) \/ readFileSync(fullPath).threw THEN cached
  ELSE CacheAfter(cached, readFileSync(fullPath).text)

\* matter.cache after getGuide(slug), which returns before it reads anything
\* when the registry has no entry for slug
GuideCache(cached, slug) ==
  IF ~InRegistry(slug) THEN cached ELSE LookupCache(cached, GuidePath(slug))

-----------------------------------------------------------------------------
(* The pages' use of the queries *)

\* generateStaticParams of a detail page, on what the listing gave:
\* try { return list.map((x) => ({ slug: x.slug })) } catch { return [] }
generateStaticParams(list) ==
  IF list.threw THEN <<>>
  ELSE [i \in DOMAIN list.value |-> [slug |-> list.value[i].slug]]

\* the time values new Date() gives while the site is built
Clock == {DateParse("2024-03-01").v, DateParse("2024-03-02").v}

\* one element of posts.map(...) of sitemap(): a Date is held as its time
\* value, which is NaN for an Invalid Date
SitemapUrl(post) ==
  [url |-> "https://dev-fix-pro.vercel.app/problems/" \o post.slug,
   lastModified |-> GetTime(post.date)]

\* sitemap() (src/app/sitemap.ts), on what getAllBlogPosts() gave and the
\* time new Date() gives
sitemap(list, now) ==
  IF list.threw THEN Threw
  ELSE Returned(<<[url |-> "https://dev-fix-pro.vercel.app/", lastModified |-> Time(now)]>>
                  \o [i \in DOMAIN list.value |-> SitemapUrl(list.value[i])])

\* the table of contents of a detail page, one list item per entry:
\* <li key={item.id}><a href={`#${item.level}`}>{item.text}</a></li>
TocLink(item) ==
  [key |-> item.id, href |-> "#" \o ToString(item.level), text |-> item.text]

\* toc.map((item) => ...)
TocLinks(items) == [i \in DOMAIN items |-> TocLink(items[i])]

-----------------------------------------------------------------------------
(* extractToc (src/lib/toc.ts).  A Markdown body is a string; positions are *)
(* 1-based, and lastIndex is the regular expression's 0-based index, which *)
(* is the number of characters before it.                                  *)

\* the line terminators of the regular-expression grammar that a body holds
LineTerminator == {"\n", "\r"}

\* \s: white space and the line terminators
WhiteSpace == {" ", "\t", "\n", "\r"}

UpperCase == "ABCDEFGHIJKLMNOPQRSTUVWXYZ"

LowerCase == "abcdefghijklmnopqrstuvwxyz"

\* \w
WordChar ==
  {Char(UpperCase, i) : i \in 1..26} \cup {Char(LowerCase, i) : i \in 1..26}
    \cup Digits \cup {"_"}

\* ^ under the m flag, before the character at p
LineStart(s, p) == p = 1 \/ Char(s, p - 1) \in LineTerminator

\* n characters # from p on
HashesAt(s, p, n) == p + n - 1 <= Len(s) /\ \A k \in p..(p + n - 1) : Char(s, k) = "#"

\* \s at p
SpaceAt(s, p) == p \in 1..Len(s) /\ Char(s, p) \in WhiteSpace

\* as Group1Length, with #{2,4} for #{2,3}
Group1LengthUpTo4(s, p) ==
  IF HashesAt(s, p, 4) /\ SpaceAt(s, p + 4) THEN 4
  ELSE IF HashesAt(s, p, 3) /\ SpaceAt(s, p + 3) THEN 3
  ELSE IF HashesAt(s, p, 2) /\ SpaceAt(s, p + 2) THEN 2
  ELSE 0

\* (#{2,3}) at p with \s after it: the length of group 1, or 0 when there is
\* no match at p.  The quantifier is greedy: three characters are tried
\* first, and two when \s does not follow the three
Group1Length(s, p) ==
  IF HashesAt(s, p, 3) /\ SpaceAt(s, p + 3) THEN 3
  ELSE IF HashesAt(s, p, 2) /\ SpaceAt(s, p + 2) THEN 2
  ELSE 0

RECURSIVE SpaceEnd(_, _)
\* \s+ from p on, where \s matches at p: the last position of the run
SpaceEnd(s, p) == IF SpaceAt(s, p + 1) THEN SpaceEnd(s, p + 1) ELSE p

RECURSIVE LineEnd(_, _)
\* (.*)$ from p on: the last position before the next line terminator or the
\* end of s (p - 1 when group 2 is empty)
LineEnd(s, p) ==
  IF p > Len(s) \/ Char(s, p) \in LineTerminator THEN p - 1 ELSE LineEnd(s, p + 1)

\* the positions from lastIdx on where /^(#{2,3})\s+(.*)$/m matches
MatchStarts(s, lastIdx) ==
  {p \in (lastIdx + 1)..Len(s) : LineStart(s, p) /\ Group1Length(s, p) > 0}

\* the match at p whose group 2 begins at t: its index, its groups, and the
\* 0-based index of the character after it
MatchFrom(s, p, t) ==
  [index |-> p - 1,
   g1 |-> SubSeq(s, p, p + Group1Length(s, p) - 1),
   g2 |-> SubSeq(s, t, LineEnd(s, t)),
   end |-> LineEnd(s, t)]

\* the match at p: group 2 begins after the white space that follows group 1
MatchAt(s, p) ==
  CHOOSE m \in {MatchFrom(s, p, t) :
                  t \in {SpaceEnd(s, p + Group1Length(s, p)) + 1}} : TRUE

\* headingRegex.exec(markdown) with headingRegex.lastIndex = lastIdx: the
\* leftmost match from there on, or null
exec(s, lastIdx) ==
  IF MatchStarts(s, lastIdx) = {} THEN Null
  ELSE CHOOSE m \in {MatchAt(s, p) :
                       p \in {q \in MatchStarts(s, lastIdx) :
                                \A r \in MatchStarts(s, lastIdx) : q <= r}} : TRUE

\* lastIndex after a match of a regular expression without the g flag
LastIndexNotGlobal(m) == 0

\* headingRegex.lastIndex after exec gave the match m (the g flag)
LastIndexAfter(m) == m.end

RECURSIVE trimStart(_)
trimStart(x) ==
  IF x # "" /\ Char(x, 1) \in WhiteSpace THEN trimStart(SubSeq(x, 2, Len(x))) ELSE x

RECURSIVE trimEnd(_)
trimEnd(x) ==
  IF x # "" /\ Char(x, Len(x)) \in WhiteSpace
  THEN trimEnd(SubSeq(x, 1, Len(x) - 1))
  ELSE x

\* x.trim()
trim(x) == trimEnd(trimStart(x))

\* the lower-case letter of every upper-case letter
LowerOf ==
  [c \in {Char(UpperCase, i) : i \in 1..26} |->
     Char(LowerCase, CHOOSE i \in 1..26 : Char(UpperCase, i) = c)]

LowerChar(c) == IF c \in DOMAIN LowerOf THEN LowerOf[c] ELSE c

RECURSIVE LowerFrom(_, _)
\* the characters of x from position i on, lower-cased
LowerFrom(x, i) ==
  IF i > Len(x) THEN "" ELSE LowerChar(Char(x, i)) \o LowerFrom(x, i + 1)

toLocaleLowerCase(x) == LowerFrom(x, 1)

RECURSIVE RemoveFrom(_, _)
\* the characters of x from position i on that are \w, \s or a hyphen
RemoveFrom(x, i) ==
  IF i > Len(x) THEN ""
  ELSE (IF Char(x, i) \in WordChar \cup WhiteSpace \cup {"-"} THEN Char(x, i) ELSE "")
         \o RemoveFrom(x, i + 1)

\* the id without the removal of other characters
RemoveNothing(x) == x

\* x.replace(/[^\w\s-]/g, '')
RemoveOthers(x) == RemoveFrom(x, 1)

RECURSIVE HyphenFrom(_, _, _)
\* the characters of x from position i on, with a hyphen for every match of
\* \s+ (a match begins at white space that does not follow white space), or,
\* when each holds, for every match of \s
HyphenFrom(x, i, each) ==
  IF i > Len(x) THEN ""
  ELSE IF Char(x, i) \in WhiteSpace
       THEN (IF each \/ ~SpaceAt(x, i - 1) THEN "-" ELSE "") \o HyphenFrom(x, i + 1, each)
       ELSE Char(x, i) \o HyphenFrom(x, i + 1, each)

\* x.replace(/\s/g, '-')
EachSpaceToHyphen(x) == HyphenFrom(x, 1, TRUE)

\* x.replace(/\s+/g, '-')
SpacesToHyphen(x) == HyphenFrom(x, 1, FALSE)

\* text.toLocaleLowerCase().replace(/[^\w\s-]/g, '').replace(/\s+/g, '-'),
\* one call after the other on the value the call before it gave
IdOf(text) ==
  CHOOSE id \in {SpacesToHyphen(removed) :
                   removed \in {RemoveOthers(lower) :
                                  lower \in {toLocaleLowerCase(text)}}} : TRUE

\* { text, id, level } of the match m
TocItem(m) ==
  [text |-> trim(m.g2), id |-> IdOf(trim(m.g2)), level |-> Len(m.g1)]

\* as push, when an entry with the same id is not entered twice
pushUnique(arr, item) ==
  IF \E i \in DOMAIN arr : arr[i].id = item.id THEN arr ELSE Append(arr, item)

\* toc.push(item)
push(arr, item) == Append(arr, item)

-----------------------------------------------------------------------------
(* The problems page (src/app/problems/page.tsx): the registry of error     *)
(* fixes, the categories, and the filter the page applies on every render.  *)
(* The icon and timeAgo of an entry are only displayed and are left out.    *)

errorFixes ==
  << [id |-> "1",
      title |-> "Fix Cannot Read Property of Undefined in NestJS",
      slug |-> "fix-cannot-read-property-of-undefined-in-nestjs",
      description |-> "Troubleshoot the \"undefined\" error in NestJS with examples.",
      category |-> "nestjs",
      tags |-> <<"NestJS", "TypeScript", "Error Handling">>],
     [id |-> "2",
      title |-> "Fix 401 Unauthorized Error in Axios",
      slug |-> "fix-401-unauthorized-error-in-axios",
      description |-> "How to resolve 401 unauthorized error in Axios and Node.js APIs.",
      category |-> "nodejs",
      tags |-> <<"Axios", "React", "Node.js", "Authentication">>],
     [id |-> "3",
      title |-> "MongoDB Connection Timeout Error in Node.js",
      slug |-> "mongodb-connection-timeout",
      description |-> "Common causes and solutions to fix MongoDB connection timeout in Node.js.",
      category |-> "mongodb",
      tags |-> <<"MongoDB", "Node.js", "Connection">>],
     [id |-> "4",
      title |-> "Fix CORS Error in React with Node.js Backend",
      slug |-> "cors-error-react",
      description |-> "Solve CORS policy issues between your React frontend and Node.js backend.",
      category |-> "react",
      tags |-> <<"React", "Node.js", "CORS", "Security">>],
     [id |-> "5",
      title |-> "Mongoose Schema Validation Not Working in NestJS",
      slug |-> "mongoose-schema-validation-not-working-in-nestjs",
      description |-> "Debugging and fixing common schema validation issues in NestJS and Mongoose.",
      category |-> "nestjs",
      tags |-> <<"NestJS", "Mongoose", "Validation">>],
     [id |-> "6",
      title |-> "Fix JWT Token Expiration Issues",
      slug |-> "fix-jwt-token-expiration-issues",
      description |-> "Handle JWT token expiration and refresh token implementation.",
      category |-> "nodejs",
      tags |-> <<"JWT", "Authentication", "Security">>],
     [id |-> "7",
      title |-> "Next.js API Routes Not Working",
      slug |-> "next-js-api-routes-not-working",
      description |-> "Common issues with Next.js API routes and how to fix them.",
      category |-> "nextjs",
      tags |-> <<"Next.js", "API", "Server">>],
     [id |-> "8",
      title |-> "SQL Injection Prevention in Node.js",
      slug |-> "sql-injection-prevention-in-node-js",
      description |-> "Best practices to prevent SQL injection attacks in your Node.js application.",
      category |-> "sql",
      tags |-> <<"SQL", "Security", "Node.js">>] >>

\* the ids of the category tabs
categories == <<"all", "nestjs", "mongodb", "nodejs", "react", "nextjs", "sql">>

\* x.toLowerCase()
toLowerCase(x) == LowerFrom(x, 1)

\* s.includes(sub)
includes(s, sub) ==
  \E i \in 0..(Len(s) - Len(sub)) : SubSeq(s, i + 1, i + Len(sub)) = sub

\* the search that does not look at the tags
matchesSearchNoTags(error, query) ==
  \/ includes(toLowerCase(error.title), toLowerCase(query))
  \/ includes(toLowerCase(error.description), toLowerCase(query))

\* const matchesSearch = ... of the filter callback
matchesSearch(error, query) ==
  \/ includes(toLowerCase(error.title), toLowerCase(query))
  \/ includes(toLowerCase(error.description), toLowerCase(query))
  \/ \E t \in DOMAIN error.tags :
       includes(toLowerCase(error.tags[t]), toLowerCase(query))

\* const matchesCategory = ... of the filter callback
matchesCategory(error, category) ==
  category = "all" \/ error.category = category

RECURSIVE FilterFrom(_, _, _)
\* the entries of errorFixes from index i on that the callback keeps
FilterFrom(i, query, category) ==
  IF i > Len(errorFixes) THEN <<>>
  ELSE (IF matchesSearch(errorFixes[i], query) /\ matchesCategory(errorFixes[i], category)
        THEN <<errorFixes[i]>> ELSE <<>>)
         \o FilterFrom(i + 1, query, category)

\* errorFixes.filter((error) => matchesSearch && matchesCategory): what a
\* render of the page with this state displays
Filter(query, category) == FilterFrom(1, query, category)

-----
(* The content trees the queries are run on *)

PostBody == <<Text("# What Does This Error Mean?"), Text("## Quick Fix")>>

\* every recognised key present (as in content/blog/cors-error-react.md)
PostFull ==
  <<Delim,
    KV("title", Str("Fix CORS Error in React")),
    KV("description", Str("Troubleshoot and resolve CORS errors in React applications.")),
    KV("date", Str("2024-01-25")),
    KV("author", Str("Chandan Kumar")),
    KV("category", Str("Error Fixes")),
    KV("tags", Arr(<<"React", "CORS", "HTTP", "Error Handling">>)),
    Delim>> \o PostBody

\* front matter that also carries keys named slug and id
PostWithSlugKey ==
  <<Delim,
    KV("title", Str("Fix Next.js API Routes Not Working")),
    KV("date", Str("2024-01-18")),
    KV("author", Str("DevFixPro")),
    KV("tags", Arr(<<"Next.js">>)),
    KV("slug", Str("slug-from-front-matter")),
    KV("id", Str("7")),
    Delim>> \o PostBody

\* only a date (with a time of day)
PostDateOnly == <<Delim, KV("date", Str("2024-02-01T10:30:00Z")), Delim>> \o PostBody

\* no front-matter block (as in content/blog/jwt-invalid-signature-error.md)
PostNoFrontMatter == <<Text("### 2. Request Validation Middleware"), Text("## Summary")>>

\* keys present with empty or otherwise falsy values
PostFalsy ==
  <<Delim,
    KV("title", Str("")),
    KV("description", JsNull),
    KV("date", Str("")),
    KV("author", Num(0)),
    KV("category", Bool(FALSE)),
    KV("tags", Num(0)),
    Delim>> \o PostBody

\* a date that is not a date, and a tag where a list of tags goes
PostBadDate ==
  <<Delim,
    KV("title", Str("Draft")),
    KV("date", Str("next week")),
    KV("category", Str("Drafts")),
    KV("tags", Str("react")),
    Delim>> \o PostBody

\* an unquoted date, which YAML loads as a Date object
PostUnquotedDate ==
  <<Delim,
    KV("title", Str("Fix MongoDB Connection Timeout Error")),
    KV("date", DateObj(DateParse("2024-01-25").v)),
    Delim>> \o PostBody

\* front matter YAML cannot parse
PostMalformed == <<Delim, Bad, Delim>> \o PostBody

PostTexts ==
  {PostFull, PostWithSlugKey, PostDateOnly, PostNoFrontMatter, PostFalsy,
   PostBadDate, PostUnquotedDate, PostMalformed}

\* the names of the Markdown files of content/blog
BlogNames == {"a.md", "b.md", "a.mdx"}

\* the entries content/blog may hold: a Markdown file with any of the texts, a
\* sub-directory with a Markdown name, a file that is not Markdown
BlogEntries ==
  {File(n, t) : n \in BlogNames, t \in PostTexts}
    \cup {SubDir("b.md"), File("notes.txt", PostNoFrontMatter)}

GuideBody == <<Text("# MERN Stack: Best Folder Structure"), Text("## Why Folder Structure Matters")>>

\* as in content/guides/mern-stack-folder-structure.md
GuideFull ==
  <<Delim,
    KV("title", Str("MERN Stack: Best Folder Structure for Production Apps")),
    KV("description", Str("Setup guide for scalable, production-ready MERN stack applications with proper folder organization.")),
    KV("date", Str("2024-01-18")),
    KV("category", Str("Architecture")),
    Delim>> \o GuideBody

GuideOther ==
  <<Delim,
    KV("title", Str("JWT Authentication in NestJS (Access & Refresh Tokens)")),
    KV("date", Str("2024-01-20")),
    Delim>> \o GuideBody

\* as in content/guides/session-auth-redis-nestjs.md
GuideNoFrontMatter == <<Text("# Session Authentication with Redis in NestJS")>>

GuideMalformed == <<Delim, KV("title", Str("x")), KV("title", Str("y")), Delim>> \o GuideBody

GuideTexts == {GuideFull, GuideOther, GuideNoFrontMatter, GuideMalformed}

\* the names of the Markdown files of content/guides
GuideNames ==
  {"mern-stack-folder-structure.md", "session-auth-redis-nestjs.md", "foo.md",
   "mern-stack-folder-structure.mdx"}

\* the entries content/guides may hold
GuideEntries ==
  {File(n, t) : n \in GuideNames, t \in GuideTexts}
    \cup {SubDir("session-auth-redis-nestjs.md"), File("notes.txt", GuideNoFrontMatter)}

\* the directories over the entries: missing, or up to MaxFiles entries with
\* pairwise different names, in every enumeration order
Dirs(entries) ==
  {NoDir} \cup
  {Dir(es) : es \in UNION {
     {f \in [1..n -> entries] :
        \A i, j \in 1..n : i # j => f[i].name # f[j].name} : n \in 0..MaxFiles}}

\* the trees of the repository itself
BlogFixtures == {NoDir, Dir(<<File("a.md", PostFull), File("b.md", PostNoFrontMatter)>>)}

GuideFixtures ==
  {NoDir,
   Dir(<<File("mern-stack-folder-structure.md", GuideFull),
         File("session-auth-redis-nestjs.md", GuideNoFrontMatter)>>)}

\* the identifiers callers pass to getBlogPost and getGuide
PostSlugArgs == {"a", "b", "./a", "../guides/foo", "missing"}

GuideSlugArgs ==
  {"mern-stack-folder-structure", "session-auth-redis-nestjs", "foo", "../blog/a",
   "missing"}

-----------------------------------------------------------------------------
(* The state machine: a content tree, and the query the page layer has     *)
(* made on it.  The page layer is synchronous: it makes one query, uses    *)
(* what the query gave, and drops it before it makes the next.             *)

NoCall == [op |-> "none", arg |-> "", res |-> Returned(Null)]

\* a process starts with an empty matter.cache
Init ==
  /\ \/ blogDir \in Dirs(BlogEntries) /\ guidesDir \in GuideFixtures
     \/ blogDir \in BlogFixtures /\ guidesDir \in Dirs(GuideEntries)
  /\ call = NoCall
  /\ cache = {}
  /\ markdown = "" /\ lastIndex = 0 /\ toc = <<>> /\ scan = "idle"
  /\ searchQuery = "" /\ selectedCategory = "all" /\ filteredErrors = Filter("", "all")

CallGetAllBlogPosts ==
  /\ call = NoCall
  /\ call' = [op |-> "getAllBlogPosts", arg |-> "", res |-> getAllBlogPosts(cache)]
  /\ cache' = ListCache(cache, blogDirPath)
  /\ UNCHANGED <<blogDir, guidesDir>>
  /\ UNCHANGED tocVars
  /\ UNCHANGED pageVars

CallGetBlogPost ==
  /\ call = NoCall
  /\ \E slug \in PostSlugArgs :
       /\ call' = [op |-> "getBlogPost", arg |-> slug, res |-> getBlogPost(cache, slug)]
       /\ cache' = LookupCache(cache, BlogPath(slug))
  /\ UNCHANGED <<blogDir, guidesDir>>
  /\ UNCHANGED tocVars
  /\ UNCHANGED pageVars

CallGetAllGuides ==
  /\ call = NoCall
  /\ call' = [op |-> "getAllGuides", arg |-> "", res |-> getAllGuides(cache)]
  /\ cache' = ListCache(cache, guidesDirPath)
  /\ UNCHANGED <<blogDir, guidesDir>>
  /\ UNCHANGED tocVars
  /\ UNCHANGED pageVars

CallGetGuide ==
  /\ call = NoCall
  /\ \E slug \in GuideSlugArgs :
       /\ call' = [op |-> "getGuide", arg |-> slug, res |-> getGuide(cache, slug)]
       /\ cache' = GuideCache(cache, slug)
  /\ UNCHANGED <<blogDir, guidesDir>>
  /\ UNCHANGED tocVars
  /\ UNCHANGED pageVars

\* the framework asks for the sitemap
CallSitemap ==
  /\ call = NoCall
  /\ \E now \in Clock :
       call' = [op |-> "sitemap", arg |-> "", res |-> sitemap(getAllBlogPosts(cache), now)]
  /\ cache' = ListCache(cache, blogDirPath)
  /\ UNCHANGED <<blogDir, guidesDir>>
  /\ UNCHANGED tocVars
  /\ UNCHANGED pageVars

\* the page layer is done with the result; nothing of it is kept
Discard ==
  /\ call # NoCall
  /\ call' = NoCall
  /\ UNCHANGED <<blogDir, guidesDir, cache>>
  /\ UNCHANGED tocVars
  /\ UNCHANGED pageVars

Next ==
  \/ CallGetAllBlogPosts
  \/ CallGetBlogPost
  \/ CallGetAllGuides
  \/ CallGetGuide
  \/ CallSitemap
  \/ Discard

Spec == Init /\ [][Next]_vars

-----------------------------------------------------------------------------
(* The bodies extractToc is run on, and a run of extractToc step by step:  *)
(* the call, each evaluation of the loop condition, and the caller         *)
(* dropping the table it got.                                              *)

\* the lines of a body: headings of levels 1 to 4 (as in src/content, one
\* ending in a carriage return), markers without a space or without text,
\* text, an empty line, a setext underline, a heading with punctuation, and
\* one with a tab, an underscore, inline Markdown and a trailing space
TocLines ==
  {"# Title", "## Sub", "### Dual-Layer (DTO + Schema)\r", "#### Deep",
   "##No", "##", "## ", "text", "", "===", "## Hello, World! & More",
   "##\tJWT_SECRET  **not** set "}

RECURSIVE Join(_)
\* lines.join('\n')
Join(lines) ==
  IF lines = <<>> THEN ""
  ELSE IF Len(lines) = 1 THEN lines[1]
  ELSE lines[1] \o "\n" \o Join(Tail(lines))

\* the bodies of up to MaxLines lines
Bodies == {Join(ls) : ls \in UNION {[1..n -> TocLines] : n \in 0..MaxLines}}

TocInit ==
  /\ blogDir = NoDir /\ guidesDir = NoDir /\ call = NoCall /\ cache = {}
  /\ markdown = "" /\ lastIndex = 0 /\ toc = <<>> /\ scan = "idle"
  /\ searchQuery = "" /\ selectedCategory = "all" /\ filteredErrors = Filter("", "all")

\* extractToc(markdown) up to the loop: a new regular expression, whose
\* lastIndex is 0, and an empty array
ExtractTocBegin ==
  /\ scan = "idle"
  /\ \E body \in Bodies : markdown' = body
  /\ lastIndex' = 0
  /\ toc' = <<>>
  /\ scan' = "loop"
  /\ UNCHANGED storeVars
  /\ UNCHANGED pageVars

\* the loop condition finds a match, and the loop body pushes its entry
ExecMatch ==
  /\ scan = "loop"
  /\ exec(markdown, lastIndex) # Null
  /\ \E match \in {exec(markdown, lastIndex)} :
       /\ toc' = push(toc, TocItem(match))
       /\ lastIndex' = LastIndexAfter(match)
  /\ UNCHANGED <<markdown, scan>>
  /\ UNCHANGED storeVars
  /\ UNCHANGED pageVars

\* the loop condition finds no match (exec resets lastIndex); return toc
ExecNull ==
  /\ scan = "loop"
  /\ exec(markdown, lastIndex) = Null
  /\ lastIndex' = 0
  /\ scan' = "returned"
  /\ UNCHANGED <<markdown, toc>>
  /\ UNCHANGED storeVars
  /\ UNCHANGED pageVars

\* the page is done with the table
TocDiscard ==
  /\ scan = "returned"
  /\ markdown' = "" /\ lastIndex' = 0 /\ toc' = <<>> /\ scan' = "idle"
  /\ UNCHANGED storeVars
  /\ UNCHANGED pageVars

TocNext ==
  \/ ExtractTocBegin
  \/ ExecMatch
  \/ ExecNull
  \/ TocDiscard

TocSpec == TocInit /\ [][TocNext]_vars

\* the loop of extractToc is synchronous: once called, it runs on until it
\* returns
TocLive == TocSpec /\ WF_vars(ExecMatch) /\ WF_vars(ExecNull)

-----------------------------------------------------------------------------
(* The problems page as a state machine: the two pieces of state of the    *)
(* component, and the list its last render displayed.  A change of state   *)
(* makes React render the component again, so each action ends with the    *)
(* filter on the new state.                                                *)

\* what the visitor types into the search box
Queries ==
  {"", "nestjs", "NESTJS", "Node", "node.js", "fix", "SQL", "undefined",
   "\"undefined\"", "cors", "Security", "SECURITY", "JWT", "Next.js", "react",
   "401", "api", " ", "xyz", "Error Handling"}

\* useState("") and useState("all"), and the first render
PageInit ==
  /\ blogDir = NoDir /\ guidesDir = NoDir /\ call = NoCall /\ cache = {}
  /\ markdown = "" /\ lastIndex = 0 /\ toc = <<>> /\ scan = "idle"
  /\ searchQuery = ""
  /\ selectedCategory = "all"
  /\ filteredErrors = Filter("", "all")

\* onChange={(e) => setSearchQuery(e.target.value)}
SetSearchQuery ==
  /\ \E value \in Queries :
       /\ searchQuery' = value
       /\ filteredErrors' = Filter(value, selectedCategory)
  /\ UNCHANGED selectedCategory
  /\ UNCHANGED <<storeVars, tocVars>>

\* onClick={() => setSelectedCategory(category.id)}
SetSelectedCategory ==
  /\ \E c \in DOMAIN categories :
       /\ selectedCategory' = categories[c]
       /\ filteredErrors' = Filter(searchQuery, categories[c])
  /\ UNCHANGED searchQuery
  /\ UNCHANGED <<storeVars, tocVars>>

PageNext ==
  \/ SetSearchQuery
  \/ SetSelectedCategory

PageSpec == PageInit /\ [][PageNext]_vars

-----------------------------------------------------------------------------
(* What the properties below speak of *)

IsList == call.op \in {"getAllBlogPosts", "getAllGuides"}

IsLookup == call.op \in {"getBlogPost", "getGuide"}

\* the directory of the collection the query is on
CollectionDir ==
  IF call.op \in {"getAllBlogPosts", "getBlogPost"} THEN blogDir ELSE guidesDir

\* the path the lookup reads
LookupPath == IF call.op = "getBlogPost" THEN BlogPath(call.arg) ELSE GuidePath(call.arg)

\* the entries of d that a listing turns into records
MarkdownEntries(d) == {i \in DOMAIN d.entries : IsMarkdown(d.entries[i].name)}

Unparsable(e) == e.kind # "file" \/ parseMatter(e.text).threw

\* d holds a regular file of this name
RegularFile(d, name) ==
  d.exists /\ \E i \in DOMAIN d.entries : d.entries[i].name = name /\ d.entries[i].kind = "file"

\* the read failed, or what was read does not parse
Unreadable(r) == r.threw \/ parseMatter(r.text).threw

\* new Date(date) is a valid date
ValidDate(date) == ~GetTime(date).nan

\* the record was made from the entry: its slug with .md or .mdx is the
\* entry's name, and its body is what matter gave for the entry's text
FromEntry(rec, e) ==
  /\ e.name = rec.slug \o ".md" \/ e.name = rec.slug \o ".mdx"
  /\ e.kind = "file"
  /\ ~matter(cache, e.text).threw
  /\ rec.content = matter(cache, e.text).content

-----------------------------------------------------------------------------
(* C1 as stated: for every file <slug>.md of a collection directory, the   *)
(* lookup of slug returns a record whose slug is slug.                     *)
C1_EveryFileIsFound ==
  (IsLookup /\ RegularFile(CollectionDir, call.arg \o ".md"))
    => (~call.res.threw /\ call.res.value # Null /\ call.res.value.slug = call.arg)

(* C1 amended: for every file <slug>.md of a collection directory whose    *)
(* front matter parses and, for a guide, whose slug is in the registry,    *)
(* the lookup of slug returns a record whose slug is slug.                 *)
C1_ParsableFileIsFound ==
  (/\ IsLookup
   /\ RegularFile(CollectionDir, call.arg \o ".md")
   /\ ~Unparsable(Entry(CollectionDir, call.arg \o ".md"))
   /\ call.op = "getGuide" => \E i \in DOMAIN guides : guides[i].slug = call.arg)
    => (~call.res.threw /\ call.res.value # Null /\ call.res.value.slug = call.arg)

C1_Witness ==
  /\ call.op = "getBlogPost"
  /\ RegularFile(blogDir, call.arg \o ".md")
  /\ call.res.value # Null
  /\ call.res.value.slug = call.arg

(* C2: when a file of the collection directory cannot be read or parsed,   *)
(* the listing still returns, with exactly the records of the other files. *)
C2_BadFileIsSkipped ==
  (/\ IsList
   /\ CollectionDir.exists
   /\ \E i \in MarkdownEntries(CollectionDir) : Unparsable(CollectionDir.entries[i]))
    => /\ ~call.res.threw
       /\ Len(call.res.value) =
            Cardinality({i \in MarkdownEntries(CollectionDir) :
                           ~Unparsable(CollectionDir.entries[i])})
       /\ \A i \in MarkdownEntries(CollectionDir) :
            ~Unparsable(CollectionDir.entries[i])
              => \E k \in DOMAIN call.res.value :
                   FromEntry(call.res.value[k], CollectionDir.entries[i])

(* C3: in every listing, no record with an empty or unparseable date comes *)
(* before a record with a valid date.                                      *)
C3_InvalidDatesLast ==
  (IsList /\ ~call.res.threw)
    => \A i, j \in DOMAIN call.res.value :
         i < j => ~(~ValidDate(call.res.value[i].date) /\ ValidDate(call.res.value[j].date))

(* C4: when the dates of the files are valid and pairwise different, the   *)
(* listing is in strictly descending date order, whatever order the        *)
(* directory gives the files in.                                           *)
C4_DistinctDatesDescend ==
  (/\ IsList
   /\ ~call.res.threw
   /\ \A i \in DOMAIN call.res.value : ValidDate(call.res.value[i].date)
   /\ \A i, j \in DOMAIN call.res.value :
        i # j => GetTime(call.res.value[i].date) # GetTime(call.res.value[j].date))
    => \A i, j \in DOMAIN call.res.value :
         i < j => GetTime(call.res.value[i].date).v > GetTime(call.res.value[j].date).v

\* a listing of two files with different valid dates that the directory
\* gave oldest first
C4_Witness ==
  /\ call.op = "getAllBlogPosts"
  /\ ~call.res.threw
  /\ Len(call.res.value) = 2
  /\ Len(blogDir.entries) = 2
  /\ ValidDate(call.res.value[1].date) /\ ValidDate(call.res.value[2].date)
  /\ GetTime(call.res.value[1].date).v > GetTime(call.res.value[2].date).v
  /\ FromEntry(call.res.value[1], blogDir.entries[2])
  /\ FromEntry(call.res.value[2], blogDir.entries[1])

(* C5: no listing holds two records with the same slug.                    *)
C5_SlugsAreUnique ==
  (IsList /\ ~call.res.threw)
    => \A i, j \in DOMAIN call.res.value :
         i # j => call.res.value[i].slug # call.res.value[j].slug

(* C6: getGuide of an id the registry has no entry for returns null, also  *)
(* when the file <id>.md exists and parses.                                *)
C6_GuideNeedsRegistryEntry ==
  (call.op = "getGuide" /\ ~\E i \in DOMAIN guides : guides[i].slug = call.arg)
    => call.res = Returned(Null)

C6_Witness ==
  /\ call.op = "getGuide"
  /\ call.arg = "foo"
  /\ RegularFile(guidesDir, "foo.md")
  /\ ~Unparsable(Entry(guidesDir, "foo.md"))
  /\ call.res = Returned(Null)

(* C7: no exception leaves a lookup; when the file of the id does not      *)
(* exist, or exists and cannot be parsed, the lookup returns null.         *)
C7_LookupNeverThrows ==
  IsLookup
    => /\ ~call.res.threw
       /\ (~existsSync(LookupPath) \/ Unreadable(readFileSync(LookupPath)))
            => call.res.value = Null

(* C8: the listing of a collection whose directory does not exist is the   *)
(* empty sequence, and no exception leaves it.                             *)
C8_MissingDirectoryIsEmpty ==
  (IsList /\ ~CollectionDir.exists) => call.res = Returned(<<>>)

C8_Witness ==
  /\ call.op = "getAllBlogPosts"
  /\ ~blogDir.exists
  /\ call.res = Returned(<<>>)

-----------------------------------------------------------------------------
(* Default substitution in post records *)

DefaultedKeys == {"title", "description", "author", "category", "tags"}

DocumentedDefault(k) ==
  CASE k = "title" -> Str("")
    [] k = "description" -> Str("")
    [] k = "author" -> Str("DevFixPro")
    [] k = "category" -> Str("General")
    [] k = "tags" -> Arr(<<>>)

\* a value that is there and is not the empty string or the empty sequence
NonEmptyValue(v) == v # Undef /\ v # JsNull /\ v # Str("") /\ v # Arr(<<>>)

\* the values JavaScript takes for false
Falsy(v) == v \in {Undef, JsNull, Str(""), Num(0), Bool(FALSE)}

HasFrontMatter(text) == text # <<>> /\ Head(text).kind = "delim"

\* C9 as stated, of one record and the front matter of its file
DefaultsAsStated(rec, data, hasFrontMatter) ==
  /\ \A k \in DefaultedKeys :
       /\ k \notin DOMAIN data => rec[k] = DocumentedDefault(k)
       /\ (k \in DOMAIN data /\ NonEmptyValue(data[k])) => rec[k] = data[k]
  /\ ~hasFrontMatter => \A k \in DefaultedKeys : rec[k] = DocumentedDefault(k)

\* C9 amended, of one record and the front matter of its file
DefaultsForFalsy(rec, data, hasFrontMatter) ==
  /\ \A k \in DefaultedKeys :
       /\ k \notin DOMAIN data => rec[k] = DocumentedDefault(k)
       /\ (k \in DOMAIN data /\ Falsy(data[k])) => rec[k] = DocumentedDefault(k)
       /\ (k \in DOMAIN data /\ ~Falsy(data[k])) => rec[k] = data[k]
  /\ ~hasFrontMatter => \A k \in DefaultedKeys : rec[k] = DocumentedDefault(k)

\* the text of the file the lookup read
LookupText == readFileSync(LookupPath).text

(* C9 as stated: in a post record, from a listing or from a lookup, every  *)
(* absent key has its documented default, every key present with a        *)
(* non-empty value is returned unchanged, and a file without front matter  *)
(* gets all the defaults.                                                  *)
C9_NonEmptyValuesKept ==
  /\ (call.op = "getBlogPost" /\ call.res.value # Null)
       => DefaultsAsStated(call.res.value, matter(cache, LookupText).data,
                           HasFrontMatter(LookupText))
  /\ (call.op = "getAllBlogPosts" /\ ~call.res.threw)
       => \A i \in MarkdownEntries(blogDir) :
            \E k \in DOMAIN call.res.value :
              /\ FromEntry(call.res.value[k], blogDir.entries[i])
              /\ DefaultsAsStated(call.res.value[k],
                                  matter(cache, blogDir.entries[i].text).data,
                                  HasFrontMatter(blogDir.entries[i].text))

(* C9 amended: in a post record, from a listing or from a lookup, every    *)
(* key that is absent or whose value is falsy (the empty string, 0, false, *)
(* null) has its documented default, every other key is returned           *)
(* unchanged, and a file without front matter gets all the defaults.       *)
C9_TruthyValuesKept ==
  /\ (call.op = "getBlogPost" /\ call.res.value # Null)
       => DefaultsForFalsy(call.res.value, matter(cache, LookupText).data,
                           HasFrontMatter(LookupText))
  /\ (call.op = "getAllBlogPosts" /\ ~call.res.threw)
       => \A i \in MarkdownEntries(blogDir) :
            \E k \in DOMAIN call.res.value :
              /\ FromEntry(call.res.value[k], blogDir.entries[i])
              /\ DefaultsForFalsy(call.res.value[k],
                                  matter(cache, blogDir.entries[i].text).data,
                                  HasFrontMatter(blogDir.entries[i].text))

\* a listing of a file whose keys are all absent and of a file whose author
\* is 0
C9_Witness ==
  /\ call.op = "getAllBlogPosts"
  /\ ~call.res.threw
  /\ Len(call.res.value) = 2
  /\ \E i, j \in DOMAIN blogDir.entries :
       /\ blogDir.entries[i].kind = "file" /\ blogDir.entries[j].kind = "file"
       /\ parseMatter(blogDir.entries[i].text).data = <<>>
       /\ "author" \in DOMAIN parseMatter(blogDir.entries[j].text).data
       /\ parseMatter(blogDir.entries[j].text).data["author"] = Num(0)
  /\ \A k \in DOMAIN call.res.value : call.res.value[k].author = Str("DevFixPro")

(* C10: the slug of every record of a listing is the name of its file      *)
(* without the extension, whatever the file's front matter holds, a key    *)
(* named slug or id included.                                              *)
C10_SlugIsFileName ==
  (IsList /\ ~call.res.threw)
    => /\ Len(call.res.value) = Cardinality(MarkdownEntries(CollectionDir))
       /\ \A i \in MarkdownEntries(CollectionDir) :
            \E k \in DOMAIN call.res.value :
              FromEntry(call.res.value[k], CollectionDir.entries[i])
       /\ \A k \in DOMAIN call.res.value :
            \E i \in MarkdownEntries(CollectionDir) :
              FromEntry(call.res.value[k], CollectionDir.entries[i])

\* a listing of a file whose front matter has a slug of its own
C10_Witness ==
  /\ call.op = "getAllBlogPosts"
  /\ ~call.res.threw
  /\ \E i \in MarkdownEntries(blogDir) :
       /\ blogDir.entries[i].kind = "file"
       /\ ~parseMatter(blogDir.entries[i].text).threw
       /\ "slug" \in DOMAIN parseMatter(blogDir.entries[i].text).data
       /\ \E k \in DOMAIN call.res.value :
            /\ FromEntry(call.res.value[k], blogDir.entries[i])
            /\ Str(call.res.value[k].slug) # parseMatter(blogDir.entries[i].text).data["slug"]

-----------------------------------------------------------------------------
(* The body of a record *)

\* the lines of a file's text after its leading front-matter block: the
\* whole text when the first line is not a delimiter, nothing when the block
\* is never closed
BodyOf(text) ==
  IF ~HasFrontMatter(text) THEN text
  ELSE IF \A i \in 2..Len(text) : text[i] # Delim THEN <<>>
  ELSE SubSeq(text,
              1 + CHOOSE i \in 2..Len(text) :
                    text[i] = Delim /\ \A j \in 2..(i - 1) : text[j] # Delim,
              Len(text))

(* C11: the body of every returned record, from a lookup or from a         *)
(* listing, is the text of its file with the leading front-matter block    *)
(* removed and nothing else; it is the whole text when the file does not   *)
(* begin with a front-matter block.                                        *)
C11_BodyIsTextAfterFrontMatter ==
  /\ (IsLookup /\ call.res.value # Null) => call.res.value.content = BodyOf(LookupText)
  /\ (IsList /\ ~call.res.threw)
       => \A k \in DOMAIN call.res.value :
            \E i \in MarkdownEntries(CollectionDir) :
              /\ CollectionDir.entries[i].name \in
                   {call.res.value[k].slug \o ".md", call.res.value[k].slug \o ".mdx"}
              /\ call.res.value[k].content = BodyOf(CollectionDir.entries[i].text)

-----------------------------------------------------------------------------
(* The lines of a body, as the properties of extractToc speak of them *)

\* the positions where a line of s begins
LineStarts(s) == {p \in 1..Len(s) : p = 1 \/ Char(s, p - 1) = "\n"}

\* the last position of the line that begins at p (p - 1 for an empty line)
LastOfLine(s, p) ==
  IF \E q \in p..Len(s) : Char(s, q) = "\n"
  THEN (CHOOSE q \in p..Len(s) :
          Char(s, q) = "\n" /\ \A r \in p..(q - 1) : Char(s, r) # "\n") - 1
  ELSE Len(s)

\* the number of # characters the line at p begins with
LeadingHashes(s, p) ==
  Cardinality({n \in 1..(LastOfLine(s, p) - p + 1) :
                 \A k \in p..(p + n - 1) : Char(s, k) = "#"})

\* what the line at p holds after its # characters
AfterHashes(s, p) == SubSeq(s, p + LeadingHashes(s, p), LastOfLine(s, p))

\* the line at p begins with exactly two or three # characters, then at
\* least one space, then text
IsHeadingLine(s, p) ==
  /\ LeadingHashes(s, p) \in {2, 3}
  /\ AfterHashes(s, p) # ""
  /\ Char(AfterHashes(s, p), 1) \in {" ", "\t"}
  /\ \E k \in 1..Len(AfterHashes(s, p)) : Char(AfterHashes(s, p), k) \notin WhiteSpace

HeadingLines(s) == {p \in LineStarts(s) : IsHeadingLine(s, p)}

\* the k-th smallest element of a set of positions
Kth(S, k) == CHOOSE p \in S : Cardinality({q \in S : q <= p}) = k

(* C12: the table extractToc returns has one entry for each line of the    *)
(* body that begins with exactly two or exactly three # characters, then   *)
(* at least one space, then text, and no entry for any other line.         *)
C12_OneEntryPerHeadingLine ==
  scan = "returned"
    => /\ Len(toc) = Cardinality(HeadingLines(markdown))
       /\ \A k \in DOMAIN toc :
            toc[k].level = LeadingHashes(markdown, Kth(HeadingLines(markdown), k))

(* C13: the text of every entry is what its own line holds after the #     *)
(* characters and the space, trimmed and otherwise unchanged; it has no    *)
(* character of another line.                                              *)
C13_TextIsRestOfLine ==
  \A k \in DOMAIN toc :
    \E p \in LineStarts(markdown) :
      /\ LeadingHashes(markdown, p) = toc[k].level
      /\ toc[k].text = trim(AfterHashes(markdown, p))

\* a lower-case letter, a digit or a hyphen
IdChar == {Char(LowerCase, i) : i \in 1..26} \cup Digits \cup {"-"}

(* C14 as stated: the id of every entry consists of lower-case letters,    *)
(* digits and hyphens only.                                                *)
C14_IdIsLowerAlnumHyphen ==
  \A k \in DOMAIN toc : \A i \in 1..Len(toc[k].id) : Char(toc[k].id, i) \in IdChar

(* C14 amended: the id of every entry consists of lower-case letters,      *)
(* digits, underscores and hyphens only (no upper-case letter, no white    *)
(* space, no other punctuation).                                           *)
C14_IdIsLowerWordOrHyphen ==
  \A k \in DOMAIN toc :
    \A i \in 1..Len(toc[k].id) : Char(toc[k].id, i) \in IdChar \cup {"_"}

\* a table with the entry of a heading that has upper-case letters,
\* punctuation and white space, and the entry of one with an underscore
C14_Witness ==
  /\ scan = "returned"
  /\ \E k \in DOMAIN toc : toc[k].text = "Hello, World! & More" /\ toc[k].id = "hello-world-more"
  /\ \E k \in DOMAIN toc : toc[k].id = "jwt_secret-not-set"

-----------------------------------------------------------------------------
(* The three steps of the id, as the properties of extractToc speak of them *)

RECURSIVE LowerCased(_)
\* x with every upper-case letter replaced by its lower-case letter
LowerCased(x) ==
  IF x = "" THEN ""
  ELSE LowerCased(SubSeq(x, 1, Len(x) - 1))
         \o (IF \E i \in 1..26 : Char(UpperCase, i) = Char(x, Len(x))
             THEN Char(LowerCase, CHOOSE i \in 1..26 : Char(UpperCase, i) = Char(x, Len(x)))
             ELSE Char(x, Len(x)))

RECURSIVE WithoutOthers(_)
\* x without the characters that are not a word character, white space or a
\* hyphen
WithoutOthers(x) ==
  IF x = "" THEN ""
  ELSE WithoutOthers(SubSeq(x, 1, Len(x) - 1))
         \o (IF Char(x, Len(x)) \in WordChar \/ Char(x, Len(x)) \in WhiteSpace
                \/ Char(x, Len(x)) = "-"
             THEN Char(x, Len(x))
             ELSE "")

\* the length of the run of white space x begins with
LeadingSpace(x) ==
  Cardinality({n \in 1..Len(x) : \A k \in 1..n : Char(x, k) \in WhiteSpace})

RECURSIVE RunsHyphenated(_)
\* x with every maximal run of white space replaced by one hyphen
RunsHyphenated(x) ==
  IF x = "" THEN ""
  ELSE IF LeadingSpace(x) > 0
       THEN "-" \o RunsHyphenated(SubSeq(x, LeadingSpace(x) + 1, Len(x)))
       ELSE Char(x, 1) \o RunsHyphenated(SubSeq(x, 2, Len(x)))

(* C15: the id of every entry is its text, lower-cased, then without every *)
(* character that is not a word character, white space or a hyphen, then   *)
(* with each maximal run of white space replaced by one hyphen; hyphens of *)
(* the text stay as they are.                                              *)
C15_IdIsThreeStepsOfText ==
  \A k \in DOMAIN toc : toc[k].id = RunsHyphenated(WithoutOthers(LowerCased(toc[k].text)))

\* the entry of a heading with upper-case letters, punctuation, a hyphen,
\* and white space on both sides of a removed character
C15_Witness ==
  /\ scan = "returned"
  /\ \E k \in DOMAIN toc :
       /\ toc[k].text = "Dual-Layer (DTO + Schema)"
       /\ toc[k].id = "dual-layer-dto-schema"

\* a step of the loop that found a match
Iteration == scan = "loop" /\ scan' = "loop"

(* C16: every match of the scan adds exactly one entry, at the end of the  *)
(* table, made from that match, and the match lies after every earlier     *)
(* one: entries come in the order of their headings, none is moved or left *)
(* out, and headings with the same text give entries with the same id.     *)
C16_EntriesInHeadingOrder ==
  [][Iteration =>
       /\ Len(toc') = Len(toc) + 1
       /\ SubSeq(toc', 1, Len(toc)) = toc
       /\ exec(markdown, lastIndex).index >= lastIndex
       /\ toc'[Len(toc')].text = trim(exec(markdown, lastIndex).g2)
       /\ toc'[Len(toc')].level = Len(exec(markdown, lastIndex).g1)
       /\ \A k \in DOMAIN toc :
            toc[k].text = toc'[Len(toc')].text => toc[k].id = toc'[Len(toc')].id]_vars

\* a table of three entries, not in alphabetical order, the first and the
\* third from headings with the same text
C16_Witness ==
  /\ scan = "returned"
  /\ markdown = "## Sub\n## Hello, World! & More\n## Sub"
  /\ Len(toc) = 3
  /\ toc[1].text = "Sub" /\ toc[2].text = "Hello, World! & More"
  /\ toc[3] = toc[1]

\* no line of s begins with exactly two or exactly three # characters
NoLevel2Or3(s) == \A p \in LineStarts(s) : LeadingHashes(s, p) \notin {2, 3}

C18_ScanAdvancesAndReturns ==
  /\ [][scan = "loop" => (lastIndex' > lastIndex \/ scan' = "returned")]_vars
  /\ [](lastIndex <= Len(markdown))
  /\ (scan = "loop" ~> scan = "returned")

\* the scan has gone round the loop three times and returned
C18_Witness ==
  /\ scan = "returned"
  /\ Len(toc) = 3

\* what the call op(arg) returns when gray-matter has the failed parses
\* cached on its cache
ResultOf(cached, op, arg) ==
  CASE op = "getAllBlogPosts" -> getAllBlogPosts(cached)
    [] op = "getBlogPost"     -> getBlogPost(cached, arg)
    [] op = "getAllGuides"    -> getAllGuides(cached)
    [] op = "getGuide"        -> getGuide(cached, arg)
    [] OTHER                  -> Returned(Null)

(* C19: a call made among other calls over the same content tree and the   *)
(* same registry returns what it returns when it is the only call of the   *)
(* process: no call reads what another call wrote.                         *)
C19_ResultAsWhenRunAlone ==
  (IsList \/ IsLookup) => call.res = ResultOf({}, call.op, call.arg)

(* C20: a call leaves nothing behind that a later call reads: made again   *)
(* right after it returned, on the same content tree and registry, the     *)
(* call returns an equal result.                                           *)
C20_RepeatedCallGivesEqualResult ==
  (IsList \/ IsLookup) => ResultOf(cache, call.op, call.arg) = call.res

-----------------------------------------------------------------------------
(* Guides: the registry and the files *)

\* the record has the identifier asked for and the display data of the
\* registry entry of that identifier
HasRegistryData(rec, slug) ==
  /\ InRegistry(slug)
  /\ rec.slug = slug
  /\ rec.title = Str(GuideMeta(slug).title)
  /\ rec.description = Str(GuideMeta(slug).description)

(* C21: a record that getGuide(id) returns has the identifier id, the      *)
(* title and the description of the registry entry whose slug is id, and   *)
(* the body of the file <id>.md of the guides directory; the title and     *)
(* the description of the file's front matter are not in it.               *)
C21_GuideJoinsRegistryAndFile ==
  (call.op = "getGuide" /\ call.res.value # Null)
    => /\ HasRegistryData(call.res.value, call.arg)
       /\ RegularFile(guidesDir, call.arg \o ".md")
       /\ call.res.value.content = BodyOf(Entry(guidesDir, call.arg \o ".md").text)

-----------------------------------------------------------------------------
(* Listing and lookup *)

(* C22: every record of a listing of the posts can be fetched by its       *)
(* identifier: getBlogPost of the record's slug returns a record equal to  *)
(* it in every field, also when the record's file has the extension .mdx.  *)
C22_ListedPostCanBeFetched ==
  (call.op = "getAllBlogPosts" /\ ~call.res.threw)
    => \A k \in DOMAIN call.res.value :
         getBlogPost(cache, call.res.value[k].slug) = Returned(call.res.value[k])

(* C23: a lookup of a post stays in the posts directory: whatever string   *)
(* the caller passes as id, when getBlogPost(id) returns a record the file *)
(* id.md lies directly in the posts directory, and the record's slug is    *)
(* the slug of a record of the listing.                                    *)
C23_LookupStaysInPostsDirectory ==
  (call.op = "getBlogPost" /\ call.res.value # Null)
    => /\ RegularFile(blogDir, call.arg \o ".md")
       /\ ~getAllBlogPosts(cache).threw
       /\ \E k \in DOMAIN getAllBlogPosts(cache).value :
            getAllBlogPosts(cache).value[k].slug = call.res.value.slug

(* C24: every slug the guide page's generateStaticParams emits, one per    *)
(* record of getAllGuides(), is the slug of a guide: getGuide(slug) is not *)
(* null, so no page rendered for an emitted slug is the not-found view.    *)
C24_EmittedGuideSlugResolves ==
  call.op = "getAllGuides"
    => \A i \in DOMAIN generateStaticParams(call.res) :
         getGuide(cache, generateStaticParams(call.res)[i].slug).value # Null

(* C25: the two guide queries give the same display data: for every slug   *)
(* that is in the registry and has a file, the record of that slug in the  *)
(* listing has the title and the description of the record getGuide(slug)  *)
(* returns.                                                                *)
C25_GuideQueriesAgree ==
  (call.op = "getAllGuides" /\ ~call.res.threw)
    => \A k \in DOMAIN call.res.value :
         (/\ InRegistry(call.res.value[k].slug)
          /\ getGuide(cache, call.res.value[k].slug).value # Null)
           => /\ call.res.value[k].title =
                   getGuide(cache, call.res.value[k].slug).value.title
              /\ call.res.value[k].description =
                   getGuide(cache, call.res.value[k].slug).value.description

-----------------------------------------------------------------------------
(* The kinds of the values of a post record *)

StringKeys == {"date", "title", "description", "author", "category"}

\* tags is a sequence (of strings, as every sequence of the front matter
\* here is) and the other fields are strings
FieldsAsDeclared(rec) ==
  /\ rec.tags.t = "array"
  /\ \A k \in StringKeys : rec[k].t = "string"

(* C26: in every post record, from a listing or from a lookup, tags is a   *)
(* sequence of strings and date, title, description, author and category   *)
(* are strings, whatever kinds of value the front matter has for the keys. *)
C26_FieldsHaveDeclaredKinds ==
  /\ (call.op = "getBlogPost" /\ call.res.value # Null) => FieldsAsDeclared(call.res.value)
  /\ (call.op = "getAllBlogPosts" /\ ~call.res.threw)
       => \A k \in DOMAIN call.res.value : FieldsAsDeclared(call.res.value[k])

-----------------------------------------------------------------------------
(* The table of contents of the detail pages *)

(* C27: the link the detail pages render for an entry of the table that    *)
(* extractToc returned has the href # followed by the entry's id, so the   *)
(* links of two entries with different ids have different targets.         *)
C27_LinkTargetsEntryId ==
  scan = "returned"
    => /\ \A i \in DOMAIN toc : TocLinks(toc)[i].href = "#" \o toc[i].id
       /\ \A i, j \in DOMAIN toc :
            toc[i].id # toc[j].id => TocLinks(toc)[i].href # TocLinks(toc)[j].href

-----------------------------------------------------------------------------
(* The list of the problems page *)

\* sub occurs in s when upper and lower case are taken as the same
ContainsIgnoringCase(s, sub) ==
  \E p \in 0..(Len(s) - Len(sub)) :
    \A k \in 1..Len(sub) : LowerChar(Char(s, p + k)) = LowerChar(Char(sub, k))

\* the indices of the entries the page is to display
Selected ==
  {i \in DOMAIN errorFixes :
     /\ \/ ContainsIgnoringCase(errorFixes[i].title, searchQuery)
        \/ ContainsIgnoringCase(errorFixes[i].description, searchQuery)
        \/ \E t \in DOMAIN errorFixes[i].tags :
             ContainsIgnoringCase(errorFixes[i].tags[t], searchQuery)
     /\ selectedCategory = "all" \/ errorFixes[i].category = selectedCategory}

(* C28: after any sequence of changes of the search query and of the       *)
(* selected category, the displayed list is exactly the entries of         *)
(* errorFixes whose title, description or some tag contains the query      *)
(* (case ignored) and whose category is the selected one, or any when all  *)
(* is selected; they are in registry order, each once; with the empty      *)
(* query and all selected every entry is displayed.                        *)
C28_DisplayedListIsTheFilter ==
  /\ Len(filteredErrors) = Cardinality(Selected)
  /\ \A k \in DOMAIN filteredErrors : filteredErrors[k] = errorFixes[Kth(Selected, k)]
  /\ (searchQuery = "" /\ selectedCategory = "all") => filteredErrors = errorFixes

\* a query in upper case that only tags match, with a category selected
\* that leaves one of the three entries with that tag
C28_Witness ==
  /\ searchQuery = "SECURITY"
  /\ selectedCategory = "nodejs"
  /\ filteredErrors = <<errorFixes[6]>>

-----------------------------------------------------------------------------
(* The sitemap *)

(* C29: sitemap() returns the entry of the home page first and after it    *)
(* one entry for each record of getAllBlogPosts(), in the same order, with *)
(* the url https://dev-fix-pro.vercel.app/problems/<slug> and a valid date *)
(* as lastModified; when the posts directory is missing it returns the     *)
(* entry of the home page alone.                                           *)
C29_SitemapListsHomeThenPosts ==
  call.op = "sitemap"
    => /\ ~call.res.threw
       /\ ~getAllBlogPosts(cache).threw
       /\ Len(call.res.value) = 1 + Len(getAllBlogPosts(cache).value)
       /\ call.res.value[1].url = "https://dev-fix-pro.vercel.app/"
       /\ \A k \in DOMAIN getAllBlogPosts(cache).value :
            /\ call.res.value[k + 1].url =
                 "https://dev-fix-pro.vercel.app/problems/"
                   \o getAllBlogPosts(cache).value[k].slug
            /\ ~call.res.value[k + 1].lastModified.nan
       /\ ~blogDir.exists => Len(call.res.value) = 1

====
